---- MODULE Spec2Model ----
(***************************************************************************)
(* Model of the fractal explorer's WebGL renderer (gl/renderer.ts), its    *)
(* tiled export, and the escape-time fragment shader (gl/mandelbrot.frag). *)
(*                                                                         *)
(* Numbers.  Pixel and canvas sizes are integers.  gl_FragCoord holds      *)
(* pixel centres (x + 0.5), so fragment coordinates are carried doubled    *)
(* (2x + 1).  A real is carried as an exact fraction <<num, den>>; a       *)
(* complex number is a pair of them.  Floating-point rounding is not       *)
(* modelled.  The escape-time loop is evaluated on Gaussian integers with  *)
(* integer powers, where the polar form of the shader is exact.            *)
(***************************************************************************)
EXTENDS Integers, Sequences, FiniteSets, TLC

\* ---------------------------------------------------------------- bounds
MaxW == 3          \* export widths 1..MaxW of a single export
MaxH == 3          \* export heights 1..MaxH of a single export
MaxTile == 3       \* tile sizes 1..MaxTile of a single export
MaxColumn == 2     \* heights and tile sizes 1..MaxColumn of overlapping exports

Min(a, b) == IF a < b THEN a ELSE b
Max(a, b) == IF a > b THEN a ELSE b
\* Math.ceil(a / b) for integers a >= 0, b >= 1
Ceil(a, b) == (a + b - 1) \div b
\* Math.floor(a / b) for integers a >= 0, b >= 1
Floor(a, b) == a \div b

\* ------------------------------------------------- application snapshots
\* The AppState fields the renderer reads (state/types.ts AppState), one
\* snapshot per fractal kind, each with its own view and render settings so
\* that a uniform left behind by one caller is visible to the next.
Fractals == {"mandelbrot", "julia", "burning-ship"}

AppStateOf(f) ==
  [ view   |-> IF f = "mandelbrot" THEN [cx |-> 0, cy |-> 0, scale |-> 2]
               ELSE IF f = "julia" THEN [cx |-> 1, cy |-> 0, scale |-> 4]
               ELSE [cx |-> 0, cy |-> -1, scale |-> 2],
    juliaC |-> IF f = "julia" THEN [x |-> -1, y |-> 1] ELSE [x |-> 0, y |-> 1],
    render |-> [ iterations |-> IF f = "mandelbrot" THEN 200 ELSE 50,
                 detail     |-> IF f = "julia" THEN 2 ELSE 1,
                 power      |-> IF f = "burning-ship" THEN 3 ELSE 2,
                 bailout    |-> IF f = "mandelbrot" THEN 4 ELSE 2,
                 fractal    |-> f ] ]

\* A snapshot is named by its kind wherever the model stores one
AppStates == Fractals

\* ------------------------------------------------------- fragment shader
\* Mutant of TypeCode: the codes of julia and burning-ship exchanged
TypeCodeSwapped(fractal) ==
  IF fractal = "julia" THEN 2 ELSE IF fractal = "burning-ship" THEN 1 ELSE 0

\* u_type as render and exportTiled encode it
TypeCode(fractal) ==
  IF fractal = "julia" THEN 1 ELSE IF fractal = "burning-ship" THEN 2 ELSE 0

\* pixelToComplex of the shader.  fragPx2 = 2 * gl_FragCoord.xy, U the
\* uniforms.  aspect = vw / max(1, vh), height = u_scale / aspect, so
\*   x = (px.x / vw - 0.5) * u_scale + cx
\*   y = (px.y / vh - 0.5) * u_scale * max(1, vh) / vw + cy
\* both returned as fractions; a zero denominator is a division by zero.
pixelToComplex(fragPx2, U) ==
  LET px2 == <<fragPx2[1] + 2 * U.u_tileOffset[1], fragPx2[2] + 2 * U.u_tileOffset[2]>>
      vw  == U.u_viewSize[1]
      vh  == U.u_viewSize[2]
  IN  << << (px2[1] - vw) * U.u_scale + U.u_center[1] * 2 * vw, 2 * vw >>,
         << (px2[2] - vh) * U.u_scale * Max(1, vh) + U.u_center[2] * 2 * vh * vw,
            2 * vh * vw >> >>

\* A shader vec2 built from two integer uniform components
Vec2(x, y) == << <<x, 1>>, <<y, 1>> >>

\* Mutant of flooredPower: u_power used as configured
unflooredPower(U) == U.u_power

\* float power = max(2.0, u_power)
flooredPower(U) == Max(2, U.u_power)

\* float bailout = max(2.0, u_bailout)
flooredBailout(U) == Max(2, U.u_bailout)

\* main() up to the iteration loop, for a pixel whose point is c0: the
\* constant c and the start value z the loop runs with (juliaC and zero being
\* u_juliaC and vec2(0.0) in the number form of c0), and the floored
\* parameters.
select(c0, juliaC, zero, U) ==
  [ c0      |-> c0,
    c       |-> IF U.u_type = 1 THEN juliaC ELSE c0,
    z       |-> IF U.u_type = 1 THEN c0 ELSE zero,
    type    |-> U.u_type,
    power   |-> flooredPower(U),
    bailout |-> flooredBailout(U),
    maxIter |-> U.u_maxIter ]

\* main() up to the iteration loop for the fragment at fragPx2 / 2
mainSetup(fragPx2, U) ==
  select(pixelToComplex(fragPx2, U), Vec2(U.u_juliaC[1], U.u_juliaC[2]), Vec2(0, 0), U)

\* ---------------------------------------------------- escape-time loop
\* The loop on Gaussian integers.  A value is [re, im, nan]; nan marks a
\* vector whose components are NaN.
MaxCoord == 2      \* pixel points and start values re, im in -MaxCoord..MaxCoord
MaxBudget == 3     \* small iteration budgets -1..MaxBudget
MaxPower == 3      \* configured powers 0..MaxPower
MaxBailout == 4    \* configured bailouts 0..MaxBailout

\* The bound of the shader's for loop
LoopCap == 100000

G(x, y) == [re |-> x, im |-> y, nan |-> FALSE]
NaN == [re |-> 0, im |-> 0, nan |-> TRUE]
Abs(x) == IF x < 0 THEN -x ELSE x

CAdd(a, b) == IF a.nan \/ b.nan THEN NaN ELSE G(a.re + b.re, a.im + b.im)
CMul(a, b) == G(a.re * b.re - a.im * b.im, a.re * b.im + a.im * b.re)

\* (r^n cos(n theta), r^n sin(n theta)) for an integer n >= 0 and z # 0
RECURSIVE CPow(_, _)
CPow(z, n) == IF n <= 0 THEN G(1, 0) ELSE CMul(z, CPow(z, n - 1))

\* One pass of the loop body up to the bailout test: the burning-ship
\* reflection, then z^power + c in polar form.  atan(0, 0) is undefined in
\* GLSL: atan00 says whether the platform yields a finite angle (then
\* r^power = 0 makes the product 0) or a NaN (then z becomes NaN).
iterate(z, S, atan00) ==
  IF z.nan THEN NaN
  ELSE LET zz == IF S.type = 2 THEN G(Abs(z.re), Abs(z.im)) ELSE z
       IN  IF zz.re = 0 /\ zz.im = 0
           THEN (IF atan00 = "nan" THEN NaN ELSE CAdd(G(0, 0), S.c))
           ELSE CAdd(CPow(zz, S.power), S.c)

\* dot(z, z) > bailout * bailout (false for a NaN)
exceeds(z, bailout) == ~z.nan /\ z.re * z.re + z.im * z.im > bailout * bailout

\* Mutant of loopExit: the loop counts down from maxIter and reports the
\* passes that were left when it stopped
RECURSIVE loopExitCountDown(_, _, _, _, _)
loopExitCountDown(i, z, seen, S, atan00) ==
  IF i >= LoopCap \/ i >= S.maxIter THEN [i |-> 0, z |-> z]
  ELSE LET z1 == iterate(z, S, atan00)
       IN  IF exceeds(z1, S.bailout) THEN [i |-> S.maxIter - i, z |-> z1]
           ELSE IF \E m \in 1 .. Len(seen) : seen[m] = z1
           THEN [i |-> 0, z |-> z1]
           ELSE loopExitCountDown(i + 1, z1, Append(seen, z1), S, atan00)

\* The for loop: the values of i and z when it is left.  It is run pass by
\* pass; seen holds the values of z at the start of passes 0 .. i.  When a
\* pass yields a value already in seen, the orbit is periodic and no later
\* pass can leave the loop by the bailout test: the loop then ends at
\* i = min(maxIter, LoopCap) with z at the matching place of the period.
RECURSIVE loopExit(_, _, _, _, _)
loopExit(i, z, seen, S, atan00) ==
  IF i >= LoopCap THEN [i |-> i, z |-> z]
  ELSE IF i >= S.maxIter THEN [i |-> i, z |-> z]
  ELSE LET z1 == iterate(z, S, atan00)
       IN  IF exceeds(z1, S.bailout) THEN [i |-> i, z |-> z1]
           ELSE IF \E m \in 1 .. Len(seen) : seen[m] = z1
           THEN LET m    == CHOOSE k \in 1 .. Len(seen) : seen[k] = z1
                    per  == Len(seen) + 1 - m
                    iEnd == Min(S.maxIter, LoopCap)
                IN  [i |-> iEnd, z |-> seen[m + ((iEnd - (m - 1)) % per)]]
           ELSE loopExit(i + 1, z1, Append(seen, z1), S, atan00)

\* After the loop: i >= maxIter is the interior (t = float(i), or the solid
\* colour); otherwise the pixel escaped and t = i + 1 - log(log(max(|z|,
\* 1e-6))) / log(power), kept as the values it is computed from.
classify(r, S) ==
  IF r.i >= S.maxIter
  THEN [ escaped |-> FALSE, iterationCount |-> r.i, finalZ |-> r.z,
         t |-> [smooth |-> FALSE, i |-> r.i, z |-> G(0, 0), power |-> 0] ]
  ELSE [ escaped |-> TRUE, iterationCount |-> r.i, finalZ |-> r.z,
         t |-> [smooth |-> TRUE, i |-> r.i, z |-> r.z, power |-> S.power] ]

\* The uniforms that only colour a pixel: the palette texture, u_paletteLength,
\* u_paletteCycle, u_scaleMode, u_edgeGlow, u_adjust and u_hue.  Two settings
\* that differ in every one of them.
Looks ==
  { [ palette |-> "electric-blue", u_paletteLength |-> 1, u_paletteCycle |-> 0,
      u_scaleMode |-> 0, u_edgeGlow |-> 0, u_adjust |-> <<0, 0, 1, 1>>, u_hue |-> 0 ],
    [ palette |-> "fire", u_paletteLength |-> 2, u_paletteCycle |-> 1,
      u_scaleMode |-> 1, u_edgeGlow |-> 1, u_adjust |-> <<1, 1, 2, 0>>, u_hue |-> 90 ] }

\* vec4(0.02, 0.01, 0.05, 1.0), in hundredths
InteriorColor == [solid |-> TRUE, rgba |-> <<2, 1, 5, 100>>]

\* fragColor of a classified pixel: the constant of the solid interior
\* (written before any palette lookup, then return), or the colour that the
\* scale mode, the palette lookup, the edge glow and adjust_color compute
\* from t, kept as the values it is computed from.
fragColor(cl, U, L) ==
  IF ~cl.escaped /\ U.u_interiorSolid = 1
  THEN InteriorColor
  ELSE [solid |-> FALSE, t |-> cl.t, maxIter |-> U.u_maxIter, look |-> L]

\* The shader's evaluation of the pixel whose point is the Gaussian integer
\* c0: its classification, and its colour under each setting of Looks
evaluate(c0, U, atan00) ==
  LET S  == select(c0, G(U.u_juliaC[1], U.u_juliaC[2]), G(0, 0), U)
      cl == classify(loopExit(0, S.z, <<S.z>>, S, atan00), S)
  IN  [ escaped |-> cl.escaped, iterationCount |-> cl.iterationCount,
        finalZ |-> cl.finalZ, t |-> cl.t,
        color |-> [L \in Looks |-> fragColor(cl, U, L)] ]

\* ------------------------------------------------------------- GL state
\* Pixels of a w x h raster
Pixels(w, h) == (0 .. w - 1) \X (0 .. h - 1)

\* A pixel of a cleared drawing buffer, and a pixel of a fresh 2D canvas
\* (records, as fragments are)
Clear == [clear |-> TRUE]
Transparent == [transparent |-> TRUE]

\* A drawing buffer right after the canvas was resized
Cleared(w, h) == [p \in Pixels(w, h) |-> Clear]

\* gl.drawArrays of the full-screen quad: every pixel of the drawing buffer
\* inside the viewport gets the fragment the shader computes for its centre.
\* Buffer coordinates have y = 0 at the bottom row (gl_FragCoord).
drawArrays(g, b) ==
  [p \in DOMAIN b |->
     IF p[1] < g.viewport[1] /\ p[2] < g.viewport[2]
     THEN mainSetup(<<2 * p[1] + 1, 2 * p[2] + 1>>, g.u)
     ELSE b[p]]

\* The GL canvas as a 2D image source (drawImage): image row 0 is the top
\* row, which is the buffer's highest row.
CanvasImage(b, cw, ch) ==
  [p \in Pixels(cw, ch) |-> b[<<p[1], ch - 1 - p[2]>>]]

\* The uniforms render() sets
RenderUniforms(st, width, height) ==
  [ u_center     |-> <<st.view.cx, st.view.cy>>,
    u_scale      |-> st.view.scale,
    u_viewSize   |-> <<width, height>>,
    u_tileOffset |-> <<0, 0>>,
    u_maxIter    |-> st.render.iterations,
    u_power      |-> st.render.power,
    u_bailout    |-> st.render.bailout,
    u_type       |-> TypeCode(st.render.fractal),
    u_juliaC     |-> <<st.juliaC.x, st.juliaC.y>> ]

\* setSize: resize canvas and viewport only when the size differs.  gl is
\* [canvas, viewport, u]; the result is <<gl, drawing buffer>>.
setSize(g, b, width, height) ==
  IF g.canvas # <<width, height>>
  THEN << [g EXCEPT !.canvas = <<width, height>>, !.viewport = <<width, height>>],
          Cleared(width, height) >>
  ELSE << g, b >>

\* Mutant of TilesX: Math.floor in place of Math.ceil
TilesXFloor(opts) == opts.width \div opts.tile

\* exportTiled: the tile grid
TilesX(opts) == Ceil(opts.width, opts.tile)
TilesY(opts) == Ceil(opts.height, opts.tile)

\* Mutant of ExportUniforms: u_viewSize and u_tileOffset as render() sets
\* them, the size of the canvas and no offset
ExportUniformsOfCanvas(st, opts, tx, ty) ==
  RenderUniforms(st, Min(opts.tile, opts.width - tx * opts.tile),
                     Min(opts.tile, opts.height - ty * opts.tile))

\* The uniforms exportTiled sets for tile (tx, ty)
ExportUniforms(st, opts, tx, ty) ==
  [ u_center     |-> <<st.view.cx, st.view.cy>>,
    u_scale      |-> st.view.scale,
    u_viewSize   |-> <<opts.width, opts.height>>,
    u_tileOffset |-> <<tx * opts.tile, ty * opts.tile>>,
    u_maxIter    |-> st.render.iterations,
    u_power      |-> st.render.power,
    u_bailout    |-> st.render.bailout,
    u_type       |-> TypeCode(st.render.fractal),
    u_juliaC     |-> <<st.juliaC.x, st.juliaC.y>> ]

\* ctx.drawImage(src, 0, 0, w, h, dx, dy, w, h) onto the 2D canvas dst
drawImage(dst, src, w, h, dx, dy) ==
  [p \in DOMAIN dst |->
     IF p[1] >= dx /\ p[1] < dx + w /\ p[2] >= dy /\ p[2] < dy + h
     THEN src[<<p[1] - dx, p[2] - dy>>]
     ELSE dst[p]]

\* The exportTiled calls the model follows: two, so that one can start
\* while the other is between tiles.
Calls == {1, 2}

\* A call that has not been made
IdleCall ==
  [ pc |-> "idle", st |-> "mandelbrot",
    opts |-> [width |-> 0, height |-> 0, tile |-> 1],
    tx |-> 0, ty |-> 0, done |-> 0,
    off |-> <<>>, writes |-> <<>>, log |-> <<>>, error |-> "", after |-> {},
    textures |-> {} ]

VARIABLES
  gl,            \* [canvas |-> <<w,h>>, viewport |-> <<w,h>>, u |-> uniforms]
  buf,           \* the drawing buffer of gl.canvas
  paused,        \* GLRenderer.paused
  previewScale,  \* GLRenderer.previewScale in halves: 1 is 0.5, 2 is 1.0
  lastDraw,      \* the last drawArrays call: who drew, with which state
  exports,       \* per exportTiled call: its locals and where it stands
  aborted,       \* per call: opts.signal.aborted
  evalIn,        \* escape-time evaluation: the pixel's point and the platform
  evalOut,       \* escape-time evaluation: the uniforms used and the result
  paletteTex,    \* the palette texture last built, with its configuration
  store,         \* useFractalState: view, render, history, redo, bookmarks; defaults; URL
  events,        \* number of input events the store has handled
  cv,            \* CanvasViewInner: refs, React state, pending frames and timers
  ctor,          \* new GLRenderer(opts): the driver it runs on and how it ended
  app            \* App and Sidebar: the renderer ref App hands to Sidebar, the UI

vars == <<gl, buf, paused, previewScale, lastDraw, exports, aborted, evalIn, evalOut,
          paletteTex, store, events, cv, ctor, app>>

\* The variables of each part, and for each part the variables outside it
rendererVars == <<gl, buf, paused, previewScale, lastDraw, exports, aborted>>
evalVars == <<evalIn, evalOut>>
storeVars == <<store, events>>
outsideRenderer == <<evalVars, paletteTex, storeVars, cv, ctor, app>>
outsideEval == <<rendererVars, paletteTex, storeVars, cv, ctor, app>>
outsidePalette == <<rendererVars, evalVars, storeVars, cv, ctor, app>>
outsideStore == <<rendererVars, evalVars, paletteTex, cv, ctor, app>>
\* CanvasView drives the renderer's previewScale and its frames
outsideView == <<paused, exports, aborted, evalVars, paletteTex, storeVars, ctor, app>>
outsideCtor == <<rendererVars, evalVars, paletteTex, storeVars, cv, app>>
\* Sidebar's export runs on the renderer
outsideApp == <<paused, previewScale, aborted, evalVars, paletteTex, storeVars, cv, ctor>>

\* No evaluation made
NoEval == [done |-> FALSE]

\* Calls suspended at the await between two tiles
InFlight == { j \in Calls : exports[j].pc = "yield" }

\* Calls that were rejected so far (history kept with each draw and call)
Rejected == { j \in Calls : exports[j].pc = "rejected" }

\* Sizes the on-screen canvas can have (CSS client size)
ClientSizes == {<<1, 1>>, <<2, 1>>}

\* The renderer after construction: the context's viewport is the canvas
\* size, initDefaults has set u_viewSize, u_center, u_scale and u_maxIter.
InitRendererAt(s) ==
  /\ gl = [ canvas |-> s, viewport |-> s,
            u |-> [ u_center |-> <<0, 0>>, u_scale |-> 3, u_viewSize |-> s,
                    u_tileOffset |-> <<0, 0>>, u_maxIter |-> 250, u_power |-> 0,
                    u_bailout |-> 0, u_type |-> 0, u_juliaC |-> <<0, 0>> ] ]
  /\ buf = Cleared(s[1], s[2])
  /\ paused = FALSE
  /\ previewScale = 2
  /\ lastDraw = [by |-> "none", call |-> 0, st |-> "mandelbrot", after |-> {},
                 sinceRender |-> FALSE]
  /\ exports = [j \in Calls |-> IdleCall]
  /\ aborted = [j \in Calls |-> FALSE]

InitRenderer == \E s \in ClientSizes : InitRendererAt(s)

\* The parts at rest: a renderer on a 1 x 1 canvas, no evaluation made, no
\* palette texture built
IdleRenderer == InitRendererAt(<<1, 1>>)

IdleEval ==
  /\ evalIn = [c0 |-> G(0, 0), atan00 |-> "zero"]
  /\ evalOut = NoEval

NoTexture == [built |-> FALSE]

IdlePalette == paletteTex = NoTexture

\* A number of the store: n / d, or n / d times 1e-15 when tiny is set
Num(n, d) == [n |-> n, d |-> d, tiny |-> FALSE]

\* A query parameter: absent, or present with a text that Number() turns
\* into the finite number value or into no finite number
Absent == [has |-> FALSE, finite |-> FALSE, value |-> Num(0, 1)]
NotANumber == [has |-> TRUE, finite |-> FALSE, value |-> Num(0, 1)]
Param(v) == [has |-> TRUE, finite |-> TRUE, value |-> v]

\* const defaults (the fields modelled: view.scale and render.iterations)
defaults == [view |-> [scale |-> Num(3, 1)], render |-> [iterations |-> Num(200, 1)]]

\* const num = (k, fallback) => ...
num(param, fallback) ==
  IF ~param.has THEN fallback
  ELSE IF param.finite THEN param.value ELSE fallback

\* Math.floor of a number that is not tiny
floor(v) == Num(v.n \div v.d, 1)

\* parseUrlState(qs).mergeInto(defaults): s = {...defaults} shares the nested
\* view and render objects with defaults, so the assignments change defaults
\* itself; the result is the changed defaults.
mergeInto(qs, dflt) ==
  [ view   |-> [scale |-> IF qs.scale.has THEN num(qs.scale, dflt.view.scale)
                          ELSE dflt.view.scale],
    render |-> [iterations |-> IF qs.iter.has
                               THEN floor(num(qs.iter, dflt.render.iterations))
                               ELSE dflt.render.iterations] ]

\* The store as created for the query string qs: initial = {...defaults,
\* ...fromUrl.mergeInto(defaults)}, no bookmarks saved
storeCreated(qs) ==
  LET d == mergeInto(qs, defaults)
  IN  [ view |-> d.view, render |-> d.render, history |-> <<>>, redo |-> <<>>,
        bookmarks |-> <<>>, defaults |-> d, url |-> qs ]

IdleStore ==
  /\ store = storeCreated([scale |-> Absent, iter |-> Absent])
  /\ events = 0

\* No posToComplex result, no frame rendered
NoMapping == [by |-> "none", re |-> <<0, 1>>, im |-> <<0, 1>>]
NoFrame == [previewScale |-> 0, awaited |-> FALSE]

\* The id requestAnimationFrame returns: one that names no pending frame.
\* The browser never gives an id twice, so the id rafRef holds is not given
\* again either; which of the unused ids it is makes no difference to the
\* program, and the model takes the least.
freshId(c) ==
  LET used == { f.id : f \in c.frames } \cup {c.rafRef}
  IN  CHOOSE n \in 1 .. Cardinality(used) + 1 :
        n \notin used /\ \A m \in 1 .. n - 1 : m \in used

\* Mutant of requestRender: no cancelAnimationFrame
requestRenderKeepAll(c, st) ==
  [c EXCEPT !.frames = @ \cup {[id |-> freshId(c), by |-> "requestRender", st |-> st, cur |-> c.state]},
            !.superseded = FALSE,
            !.rafRef = freshId(c)]

\* requestRender() of a render whose state is st: the frame rafRef names is
\* cancelled and a new one is scheduled, rafRef naming it.  The callback
\* holds st; cur is the state the store is in when the frame is requested.
requestRender(c, st) ==
  [c EXCEPT !.frames = { f \in @ : f.id # c.rafRef }
                         \cup {[id |-> freshId(c), by |-> "requestRender", st |-> st, cur |-> c.state]},
            !.superseded = \E f \in c.frames : f.id = c.rafRef,
            !.rafRef = freshId(c)]

\* The requestAnimationFrame call of the showUI effect, which rafRef does not
\* track; its callback holds the requestRender of the render that ran it
showUIEffect(c) ==
  [c EXCEPT !.frames = @ \cup {[id |-> freshId(c), by |-> "showUI", st |-> c.state, cur |-> c.state]}]

\* CanvasViewInner once mounted on a canvas of client size rect with the
\* store in state s: the renderer is created, the render effect has
\* requested a frame, the dragging effect has called withPreview(false),
\* the showUI effect has requested its frame and the key effect has installed
\* its listener, which holds the view of this render
mounted(rect, s) ==
  showUIEffect(requestRender(
    [ renderer |-> TRUE, rect |-> rect, captured |-> FALSE, dragging |-> FALSE,
      box |-> FALSE, state |-> s, mountState |-> s, showUI |-> TRUE,
      mapped |-> NoMapping, frames |-> {}, superseded |-> FALSE, rafRef |-> 0,
      timers |-> 0, frame |-> NoFrame, awaitFull |-> FALSE,
      handled |-> 0, onKey |-> [view |-> AppStateOf(s).view, key |-> "none"] ], s))

IdleView == cv = mounted(<<1, 1>>, "mandelbrot")

\* An info log of the driver: null, or a text (a sequence of characters)
Log(text) == [null |-> FALSE, text |-> text]
NullLog == [null |-> TRUE, text |-> <<>>]

\* A compile or link step of the driver: its status and its info log
Step(ok, log) == [ok |-> ok, log |-> log]

\* A driver with WebGL2 on which everything compiles and links
GoodDriver ==
  [ webgl2 |-> TRUE, vs |-> Step(TRUE, Log(<<>>)), fs |-> Step(TRUE, Log(<<>>)),
    link |-> Step(TRUE, Log(<<>>)) ]

\* No constructor call has ended
NoResult == [thrown |-> FALSE, message |-> <<>>, instance |-> FALSE]

\* No export button has been clicked
NoClick == [format |-> "none", scale |-> 0]

\* App once mounted: `renderer = useRef(null)`, which nothing assigns, is
\* what Sidebar gets as its renderer; Sidebar is shown and not exporting
appMounted ==
  [ renderer |-> FALSE, showUI |-> TRUE, exporting |-> FALSE, invoked |-> 0,
    started |-> 0, click |-> NoClick,
    \* abortRef of the Sidebar mounted (0 is null), the calls it has made,
    \* the calls whose exportImage has run to its end, and the store's ui
    abortRef |-> 0, own |-> {}, settled |-> {},
    ui |-> [exporting |-> FALSE, exportProgress |-> <<0, 1>>] ]

IdleApp == app = appMounted

\* The renderer of the other specifications was constructed on a good driver
IdleCtor ==
  ctor = [ pc |-> "done", driver |-> GoodDriver,
           result |-> [thrown |-> FALSE, message |-> <<>>, instance |-> TRUE] ]

Init ==
  /\ InitRenderer
  /\ IdleEval
  /\ IdlePalette
  /\ IdleStore
  /\ IdleView
  /\ IdleCtor
  /\ IdleApp

\* render(state) with the canvas at client size cs and device pixel ratio
\* 1: what it does to the GL context and the drawing buffer (the resized
\* context and the context with its uniforms are each one value)
renderGL(s, cs) ==
  IF paused THEN UNCHANGED <<gl, buf, lastDraw>>
  ELSE
    LET st     == AppStateOf(s)
        width  == Floor(cs[1] * st.render.detail * previewScale, 2)
        height == Floor(cs[2] * st.render.detail * previewScale, 2)
    IN  \E sized \in {setSize(gl, buf, width, height)} :
          \E g1 \in {[sized[1] EXCEPT !.u = RenderUniforms(st, width, height)]} :
            /\ gl' = g1
            /\ buf' = drawArrays(g1, sized[2])
            /\ lastDraw' = [by |-> "render", call |-> 0, st |-> s, after |-> Rejected,
                            sinceRender |-> FALSE]

\* render(state), which changes nothing else
render(s, cs) ==
  /\ renderGL(s, cs)
  /\ UNCHANGED <<paused, previewScale, exports, aborted, outsideRenderer>>

Render == \E s \in AppStates, cs \in ClientSizes : render(s, cs)

withPreview(on) ==
  /\ previewScale' = IF on THEN 1 ELSE 2
  /\ UNCHANGED <<gl, buf, paused, lastDraw, exports, aborted, outsideRenderer>>

WithPreview == \E on \in BOOLEAN : withPreview(on)

pause(p) ==
  /\ paused' = p
  /\ UNCHANGED <<gl, buf, previewScale, lastDraw, exports, aborted, outsideRenderer>>

Pause == \E p \in BOOLEAN : pause(p)

\* Mutant of signalAborted: the signal is never looked at
signalAbortedNever(j) == FALSE

\* opts.signal?.aborted for call j
signalAborted(j) == aborted[j]

\* Mutant of tileGL: the canvas is resized but gl.viewport is not called
tileGLKeepViewport(c, w, h) ==
  [ canvas |-> <<w, h>>, viewport |-> gl.viewport,
    u |-> ExportUniforms(AppStateOf(c.st), c.opts, c.tx, c.ty) ]

\* The GL state exportTiled establishes for the w x h tile (tx, ty) of call
\* c: canvas size, viewport and every uniform
tileGL(c, w, h) ==
  [ canvas |-> <<w, h>>, viewport |-> <<w, h>>,
    u |-> ExportUniforms(AppStateOf(c.st), c.opts, c.tx, c.ty) ]

\* Mutant of progressValue: the count of tiles before the one just drawn
progressBeforeIncrement(done, opts) == <<done - 1, TilesX(opts) * TilesY(opts)>>

\* The value passed to opts.onProgress, done / (tilesX * tilesY), as a fraction
progressValue(done, opts) == <<done, TilesX(opts) * TilesY(opts)>>

\* One pass of exportTiled's loop body for call j, from the abort test to
\* the await, c being the call's locals with the tile indices already set.
exportTile(j, c) ==
  IF signalAborted(j)
  THEN /\ exports' = [exports EXCEPT ![j] = [c EXCEPT !.pc = "rejected", !.error = "aborted"]]
       /\ UNCHANGED <<gl, buf, lastDraw>>
  ELSE
    LET tile  == c.opts.tile
        w     == Min(tile, c.opts.width - c.tx * tile)
        h     == Min(tile, c.opts.height - c.ty * tile)
        g1    == tileGL(c, w, h)
        b1    == drawArrays(g1, Cleared(w, h))
        tmp   == CanvasImage(b1, w, h)
        off1  == drawImage(c.off, tmp, w, h, c.tx * tile, c.ty * tile)
        wr1   == [p \in DOMAIN c.writes |->
                    IF /\ p[1] >= c.tx * tile /\ p[1] < c.tx * tile + w
                       /\ p[2] >= c.ty * tile /\ p[2] < c.ty * tile + h
                    THEN c.writes[p] + 1 ELSE c.writes[p]]
        done1 == c.done + 1
    IN  /\ gl' = g1
        /\ buf' = b1
        /\ lastDraw' = [by |-> "exportTiled", call |-> j, st |-> c.st, after |-> Rejected,
                        sinceRender |-> lastDraw.by = "render" /\ c.done > 0]
        /\ exports' = [exports EXCEPT ![j] =
              [c EXCEPT !.pc = "yield", !.off = off1, !.writes = wr1, !.done = done1,
                        !.textures = c.textures \cup {paletteTex},
                        !.log = c.log \o << <<"draw", c.tx, c.ty, w, h>>,
                                            <<"progress">> \o progressValue(done1, c.opts),
                                            <<"yield">> >>]]

\* exportTiled(state, opts) is called: the function runs up to its first
\* await; what it does to the renderer
exportTiledRun(j, st, opts) ==
  /\ exports[j].pc = "idle"
  /\ \A i \in Calls : i < j => exports[i].pc # "idle"
  /\ LET c == [ pc |-> "run", st |-> st, opts |-> opts, tx |-> 0, ty |-> 0, done |-> 0,
                off |-> [p \in Pixels(opts.width, opts.height) |-> Transparent],
                writes |-> [p \in Pixels(opts.width, opts.height) |-> 0],
                log |-> <<>>, error |-> "", after |-> Rejected, textures |-> {} ]
     IN  IF TilesY(opts) > 0 /\ TilesX(opts) > 0
         THEN exportTile(j, c)
         ELSE /\ exports' = [exports EXCEPT ![j] = [c EXCEPT !.pc = "resolved"]]
              /\ UNCHANGED <<gl, buf, lastDraw>>

\* exportTiled(state, opts), which changes nothing else
exportTiled(j, st, opts) ==
  /\ exportTiledRun(j, st, opts)
  /\ UNCHANGED <<paused, previewScale, aborted, outsideRenderer>>

\* Export options: any size and tile within the bounds, and the one-pixel
\* wide columns used when two calls may overlap
ExportOpts ==
  { [width |-> w, height |-> h, tile |-> t] : w \in 1 .. MaxW, h \in 1 .. MaxH, t \in 1 .. MaxTile }
ColumnOpts ==
  { [width |-> 1, height |-> h, tile |-> t] : h \in 1 .. MaxColumn, t \in 1 .. MaxColumn }

\* One exportTiled call on the renderer
ExportTiled == \E st \in AppStates, opts \in ExportOpts : exportTiled(1, st, opts)

\* exportTiled calls on the renderer, nothing keeping a call from starting
\* while an earlier one is between tiles
ExportTiledAgain == \E j \in Calls, st \in AppStates, opts \in ColumnOpts : exportTiled(j, st, opts)

\* The timer of the await fires: call j goes on with the next tile, or
\* returns the output canvas when the loops are over.
resumeRun(j) ==
  /\ exports[j].pc = "yield"
  /\ LET c == exports[j]
     IN  IF c.tx + 1 < TilesX(c.opts)
         THEN exportTile(j, [c EXCEPT !.tx = c.tx + 1])
         ELSE IF c.ty + 1 < TilesY(c.opts)
         THEN exportTile(j, [c EXCEPT !.tx = 0, !.ty = c.ty + 1])
         ELSE /\ exports' = [exports EXCEPT ![j] = [c EXCEPT !.pc = "resolved"]]
              /\ UNCHANGED <<gl, buf, lastDraw>>

\* ... which changes nothing else
Resume(j) ==
  /\ resumeRun(j)
  /\ UNCHANGED <<paused, previewScale, aborted, outsideRenderer>>

ResumeExport == \E j \in Calls : Resume(j)

\* The caller aborts the call's AbortController, the call being in one of
\* the given places
Abort(j, places) ==
  /\ exports[j].pc \in places
  /\ ~aborted[j]
  /\ aborted' = [aborted EXCEPT ![j] = TRUE]
  /\ UNCHANGED <<gl, buf, paused, previewScale, lastDraw, exports, outsideRenderer>>

\* ... before the call is made or while it is between tiles
AbortExport == \E j \in Calls : Abort(j, {"idle", "yield"})

\* ... while it is between tiles
AbortBetweenTiles == \E j \in Calls : Abort(j, {"yield"})

\* The renderer with exportTiled calls that may overlap, and on-screen frames
Next == Render \/ ExportTiledAgain \/ ResumeExport \/ AbortBetweenTiles

Spec == Init /\ [][Next]_vars

\* The renderer with a single exportTiled call, and on-screen frames
NextTiles == Render \/ ExportTiled \/ ResumeExport \/ AbortExport

SpecTiles == Init /\ [][NextTiles]_vars

\* The escape-time evaluation of one pixel: the pixel's point and the
\* platform's atan(0, 0) are given, the uniforms are chosen and the shader
\* evaluates the pixel once.
Points == { G(x, y) : x \in -MaxCoord .. MaxCoord, y \in -MaxCoord .. MaxCoord }
Budgets == (-1 .. MaxBudget) \cup {LoopCap, LoopCap + 1, LoopCap + 2}
JuliaCs == {<<0, 0>>, <<-1, 0>>}

EvalUniforms ==
  { [ u_type |-> ty, u_juliaC |-> jc, u_maxIter |-> n, u_power |-> p, u_bailout |-> b,
      u_interiorSolid |-> s ] :
      ty \in 0 .. 2, jc \in JuliaCs, n \in Budgets, p \in 0 .. MaxPower, b \in 0 .. MaxBailout,
      s \in {0, 1} }

InitEval ==
  /\ IdleRenderer
  /\ IdlePalette
  /\ IdleStore
  /\ evalIn \in [c0 : Points, atan00 : {"zero", "nan"}]
  /\ evalOut = NoEval
  /\ IdleView
  /\ IdleCtor
  /\ IdleApp

Evaluate ==
  /\ ~evalOut.done
  /\ \E U \in EvalUniforms :
       /\ U.u_type # 1 => U.u_juliaC = <<0, 0>>
       /\ evalOut' = [done |-> TRUE, U |-> U, res |-> evaluate(evalIn.c0, U, evalIn.atan00)]
  /\ UNCHANGED <<evalIn, outsideEval>>

NextEval == Evaluate

SpecEval == InitEval /\ [][NextEval]_vars

\* ---------------------------------------------------------- palette.ts
MaxSize == 5       \* palette textures of 2..MaxSize texels

\* A gradient stop; t in ten-thousandths
Stop(t, r, g, b) == [t |-> t, rgb |-> <<r, g, b>>]

presets ==
  [ p \in { "electric-blue", "classic-blue", "fire", "viridis", "magma", "plasma",
            "rainbow", "grayscale" } |->
      CASE p = "electric-blue" ->
             << Stop(0, 0, 7, 100), Stop(1600, 32, 107, 203), Stop(4200, 237, 255, 255),
                Stop(6425, 255, 170, 0), Stop(8575, 0, 2, 0), Stop(10000, 0, 7, 100) >>
        [] p = "classic-blue" ->
             << Stop(0, 0, 0, 0), Stop(2500, 0, 0, 64), Stop(5000, 0, 128, 255),
                Stop(7500, 255, 255, 255), Stop(10000, 0, 0, 0) >>
        [] p = "fire" ->
             << Stop(0, 0, 0, 0), Stop(3000, 180, 20, 0), Stop(6000, 255, 220, 0),
                Stop(10000, 255, 255, 255) >>
        [] p = "viridis" ->
             << Stop(0, 68, 1, 84), Stop(2500, 59, 82, 139), Stop(5000, 33, 145, 140),
                Stop(7500, 94, 201, 97), Stop(10000, 253, 231, 37) >>
        [] p = "magma" ->
             << Stop(0, 0, 0, 3), Stop(5000, 251, 53, 108), Stop(10000, 252, 253, 191) >>
        [] p = "plasma" ->
             << Stop(0, 12, 7, 134), Stop(5000, 225, 77, 104), Stop(10000, 240, 249, 33) >>
        [] p = "rainbow" ->
             << Stop(0, 148, 0, 211), Stop(2000, 75, 0, 130), Stop(4000, 0, 0, 255),
                Stop(6000, 0, 255, 0), Stop(8000, 255, 255, 0), Stop(10000, 255, 0, 0) >>
        [] p = "grayscale" ->
             << Stop(0, 0, 0, 0), Stop(10000, 255, 255, 255) >> ]

\* listPalettePresets()
listPalettePresets == DOMAIN presets

\* presets[cfg.preset] || presets['electric-blue']
stopsOf(preset) ==
  IF preset \in DOMAIN presets THEN presets[preset] ELSE presets["electric-blue"]

\* stops.findIndex(s => s.t >= t) for t = tn / td, counted from 0; -1 if none
findIndex(stops, tn, td) ==
  LET hits == { k \in 1 .. Len(stops) : stops[k].t * td >= tn * 10000 }
  IN  IF hits = {} THEN -1 ELSE (CHOOSE k \in hits : \A m \in hits : k <= m) - 1

\* interpRGB(a, b, u, mode) for u = un / ud in [0, 1], one texel.  At u = 0
\* and u = 1 every mode returns a and b; in between linear rounds
\* a + (b - a) u to the nearest integer (halves upwards), while cosine and
\* perceptual, which go through cos and pow, are kept as the values they are
\* computed from.
interpRGB(a, b, un, ud, mode) ==
  IF un = 0 THEN [rgb |-> a, alpha |-> 255]
  ELSE IF un = ud THEN [rgb |-> b, alpha |-> 255]
  ELSE IF mode = "linear"
  THEN [ rgb |-> [k \in 1 .. 3 |-> (2 * (a[k] * ud + (b[k] - a[k]) * un) + ud) \div (2 * ud)],
         alpha |-> 255 ]
  ELSE [rgb |-> <<a, b, un, ud, mode>>, alpha |-> 255]

\* buildPaletteTexture(cfg, size), size >= 2: texel i, counted from 0, is at
\* place i + 1 of the result.
buildPaletteTexture(cfg, size) ==
  LET stops == stopsOf(cfg.preset)
      texel(i) ==
        LET tn  == IF cfg.reverse THEN size - 1 - i ELSE i
            td  == size - 1
            idx == findIndex(stops, tn, td)
            i1  == Max(1, idx)
            s0  == stops[i1]
            s1  == IF i1 + 1 <= Len(stops) THEN stops[i1 + 1] ELSE stops[Len(stops)]
            \* u = (t - s0.t) / max(1e-6, s1.t - s0.t), clamped to [0, 1]
            un  == tn * 10000 - s0.t * td
            ud  == (IF s1.t > s0.t THEN s1.t - s0.t ELSE 1) * td
            cn  == IF un < 0 THEN 0 ELSE IF un > ud THEN ud ELSE un
        IN  interpRGB(s0.rgb, s1.rgb, cn, ud, cfg.interpolation)
  IN  [i \in 1 .. size |-> texel(i - 1)]

PaletteConfigs ==
  [ preset : listPalettePresets \cup {"custom"},
    interpolation : {"linear", "cosine", "perceptual"},
    reverse : BOOLEAN ]

\* A palette texture is built for a configuration
BuildPaletteTexture ==
  /\ \E cfg \in PaletteConfigs, size \in 2 .. MaxSize :
       paletteTex' = [ built |-> TRUE, cfg |-> cfg, size |-> size,
                       data |-> buildPaletteTexture(cfg, size) ]
  /\ UNCHANGED outsidePalette

InitPalette ==
  /\ IdleRenderer
  /\ IdleEval
  /\ IdlePalette
  /\ IdleStore
  /\ IdleView
  /\ IdleCtor
  /\ IdleApp

NextPalette == BuildPaletteTexture

SpecPalette == InitPalette /\ [][NextPalette]_vars

\* --------------------------------------- the palette texture of a renderer
\* GLRenderer.paletteSize
paletteSize == 256

\* state.palette of a snapshot: each kind has its own palette
paletteOf(s) ==
  IF s = "mandelbrot"
  THEN [preset |-> "electric-blue", interpolation |-> "cosine", reverse |-> FALSE]
  ELSE IF s = "julia"
  THEN [preset |-> "fire", interpolation |-> "linear", reverse |-> FALSE]
  ELSE [preset |-> "electric-blue", interpolation |-> "cosine", reverse |-> TRUE]

\* The contents setPalette(cfg) uploads to this.paletteTex, which the
\* constructor has created (the shader declares u_palette): the texels
\* buildPaletteTexture(cfg, this.paletteSize) gives, here for each palette
\* a snapshot can have
paletteTexture ==
  [ cfg \in { paletteOf(s) : s \in AppStates } |->
      [ built |-> TRUE, cfg |-> cfg, size |-> paletteSize,
        data |-> buildPaletteTexture(cfg, paletteSize) ] ]

\* The texture bound to unit 0, whose contents every draw samples: render
\* and exportTiled leave it as it is (this.paletteTex is not null), only
\* setPalette replaces its contents.
setPalette(cfg) == paletteTex' = paletteTexture[cfg]

\* The animation frame callback of CanvasView's requestRender for the state
\* s it captured: setPalette(state.palette), then render(state)
frameCallback(s, cs) ==
  /\ setPalette(paletteOf(s))
  /\ renderGL(s, cs)
  /\ UNCHANGED <<paused, previewScale, exports, aborted, evalVars, storeVars, cv, ctor, app>>

RenderFrame == \E s \in AppStates : frameCallback(s, <<1, 1>>)

\* Sidebar's export of the state on screen, in tiles
ExportOnScreen ==
  \E st \in AppStates, opts \in ExportOpts :
    /\ paletteTex = paletteTexture[paletteOf(st)]
    /\ exportTiled(1, st, opts)

\* A renderer shared by the on-screen frames and one tiled export
NextExport == RenderFrame \/ ExportOnScreen \/ ResumeExport

SpecExport == Init /\ [][NextExport]_vars

\* ------------------------------------------- useFractalState, urlState.ts
MaxEvents == 3     \* input events handled by the store

RECURSIVE gcd(_, _)
gcd(a, b) == IF b = 0 THEN a ELSE gcd(b, a % b)

\* v * a / b in lowest terms (a, b > 0, v in lowest terms)
times(v, a, b) ==
  LET g1 == gcd(Abs(v.n), b)
      g2 == gcd(a, v.d)
      k1 == IF g1 = 0 THEN 1 ELSE g1
  IN  [n |-> (v.n \div k1) * (a \div g2), d |-> (v.d \div g2) * (b \div k1), tiny |-> v.tiny]

\* v >= 1e-15 and v <= 8 for the numbers the model holds (a positive number
\* that is not tiny is above 1e-15, a tiny one is below 8)
atLeastMinScale(v) == IF v.tiny THEN v.n >= v.d ELSE v.n > 0
atMostMaxScale(v) == v.tiny \/ v.n <= 8 * v.d

\* clamp(v, 1e-15, 8.0) = Math.min(8.0, Math.max(1e-15, v))
clampScale(v) ==
  IF ~atLeastMinScale(v) THEN [n |-> 1, d |-> 1, tiny |-> TRUE]
  ELSE IF ~atMostMaxScale(v) THEN Num(8, 1)
  ELSE v

\* Math.floor(clamp(n, 50, 20000)) for an integer n
clampIterations(n) == Num(Min(20000, Max(50, n)), 1)

\* serializeState(st), the parameters modelled
serializeState(st) == [scale |-> Param(st.view.scale), iter |-> Param(st.render.iterations)]

\* setView(v, pushHist): the view is replaced, the previous view is pushed
\* on the history and redo is emptied if pushHist, and the URL is replaced.
setView(st, v, pushHist) ==
  LET s1 == [st EXCEPT !.view = v]
      s2 == IF pushHist
            THEN [s1 EXCEPT !.history = Append(st.history, st.view), !.redo = <<>>]
            ELSE s1
  IN  [s2 EXCEPT !.url = serializeState(s2)]

\* An input event is handled while the bound allows; it changes the store only
Handled ==
  /\ events < MaxEvents
  /\ events' = events + 1
  /\ UNCHANGED outsideStore

\* Numerators and denominators a wheel event may start from
MaxNumber == 2000000

representable(v) == Abs(v.n) <= MaxNumber /\ v.d <= MaxNumber

\* wheelZoom on the store st: the factor is 1.1, or 1.03 with ctrl, inverted
\* for zooming in; the scale is clamped and setView pushes the history
wheelZoom(st, zoomIn, ctrlKey) ==
  LET a == IF ctrlKey THEN 103 ELSE 11
      b == IF ctrlKey THEN 100 ELSE 10
      z == IF zoomIn THEN times(st.view.scale, b, a) ELSE times(st.view.scale, a, b)
  IN  setView(st, [scale |-> clampScale(z)], TRUE)

\* A wheel event on the canvas: the native listener added to the canvas
\* runs wheelZoom, then React's onWheel runs it again, each reading the
\* store as it is then (neither stops the event)
WheelZoom ==
  \E zoomIn \in BOOLEAN, ctrlKey \in BOOLEAN :
    /\ Handled
    /\ representable(store.view.scale)
    /\ \E s1 \in {wheelZoom(store, zoomIn, ctrlKey)} :
         /\ representable(s1.view.scale)
         /\ store' = wheelZoom(s1, zoomIn, ctrlKey)

\* onKey, '+' or '=' and '-' or '_': scale * 0.9 and scale / 0.9
KeyZoom ==
  \E plus \in BOOLEAN :
    LET z == IF plus THEN times(store.view.scale, 9, 10) ELSE times(store.view.scale, 10, 9)
    IN  /\ Handled
        /\ representable(store.view.scale)
        /\ store' = setView(store, [scale |-> z], TRUE)

\* onPointerUp ending a shift-drag over half the width of the canvas: the
\* new scale is the width of the selection, |p1.re - p0.re|
BoxZoom ==
  LET w == times(store.view.scale, 1, 2)
      widthC == [w EXCEPT !.n = Abs(w.n)]
  IN  /\ widthC.n > 0
      /\ representable(store.view.scale)
      /\ Handled
      /\ store' = setView(store, [scale |-> widthC], TRUE)

\* setIterations(n) from the number input or the slider
SetIterations ==
  \E n \in {0, 300, 99999} :
    /\ Handled
    /\ store' = [store EXCEPT !.render.iterations = clampIterations(n)]

\* reset()
Reset ==
  LET s1 == [store EXCEPT !.view = store.defaults.view, !.render = store.defaults.render,
                          !.history = <<>>, !.redo = <<>>, !.bookmarks = <<>>]
  IN  /\ Handled
      /\ store' = [s1 EXCEPT !.url = serializeState(store.defaults)]

\* Mutant of undo: the view that is left is not put on redo
undoDropView(st) ==
  IF Len(st.history) = 0 THEN st
  ELSE LET prev == st.history[Len(st.history)]
           s1 == [st EXCEPT !.view = prev,
                            !.history = SubSeq(st.history, 1, Len(st.history) - 1)]
       IN  [s1 EXCEPT !.url = serializeState(s1)]

\* undo(): nothing on an empty history; else the last entry of history
\* becomes the view, the view goes to the front of redo, the URL is replaced
undo(st) ==
  IF Len(st.history) = 0 THEN st
  ELSE LET prev == st.history[Len(st.history)]
           s1 == [st EXCEPT !.view = prev,
                            !.history = SubSeq(st.history, 1, Len(st.history) - 1),
                            !.redo = <<st.view>> \o st.redo]
       IN  [s1 EXCEPT !.url = serializeState(s1)]

\* redoPop(): nothing on an empty redo; else the first entry of redo becomes
\* the view, the view is appended to history, the URL is replaced
redoPop(st) ==
  IF Len(st.redo) = 0 THEN st
  ELSE LET next == st.redo[1]
           s1 == [st EXCEPT !.view = next,
                            !.redo = Tail(st.redo),
                            !.history = Append(st.history, st.view)]
       IN  [s1 EXCEPT !.url = serializeState(s1)]

\* Ctrl+Z with a history to go back on
Undo ==
  /\ Len(store.history) > 0
  /\ Handled
  /\ store' = undo(store)

\* Ctrl+Shift+Z with a redo to go forward on
RedoPop ==
  /\ Len(store.redo) > 0
  /\ Handled
  /\ store' = redoPop(store)

\* addBookmark(): the new bookmark goes first, at most 64 are kept
AddBookmark ==
  LET bm == [view |-> store.view, iter |-> store.render.iterations]
      all == <<bm>> \o store.bookmarks
  IN  /\ Handled
      /\ store' = [store EXCEPT !.bookmarks = SubSeq(all, 1, Min(64, Len(all)))]

\* loadBookmark(id) of a bookmark held
LoadBookmark ==
  \E k \in 1 .. Len(store.bookmarks) :
    LET b == store.bookmarks[k]
        s1 == setView(store, b.view, TRUE)
    IN  /\ Handled
        /\ store' = [s1 EXCEPT !.render.iterations = b.iter]

\* The query strings the page is opened with
ScaleParams == {Absent, NotANumber, Param(Num(-1, 1)), Param(Num(0, 1)), Param(Num(100, 1))}
IterParams == {Absent, NotANumber, Param(Num(0, 1)), Param(Num(7, 2)), Param(Num(100001, 1))}

InitStore ==
  /\ IdleRenderer
  /\ IdleEval
  /\ IdlePalette
  /\ \E qs \in [scale : ScaleParams, iter : IterParams] : store = storeCreated(qs)
  /\ events = 0
  /\ IdleView
  /\ IdleCtor
  /\ IdleApp

NextStore ==
  \/ WheelZoom
  \/ KeyZoom
  \/ BoxZoom
  \/ SetIterations
  \/ Reset
  \/ Undo
  \/ RedoPop
  \/ AddBookmark
  \/ LoadBookmark

SpecStore == InitStore /\ [][NextStore]_vars

\* ------------------------------------------- the keydown listener, onKey
\* Sums and differences of numbers that are not tiny, in lowest terms
plus(v, w) ==
  LET n == v.n * w.d + w.n * v.d
      d == v.d * w.d
      g == gcd(Abs(n), d)
  IN  Num(n \div g, d \div g)
minus(v, w) == plus(v, [w EXCEPT !.n = -w.n])

\* defaults.view with its centre
defaultView == [cx |-> Num(-3, 4), cy |-> Num(0, 1), scale |-> Num(3, 1)]

Arrows == {"ArrowLeft", "ArrowRight", "ArrowUp", "ArrowDown"}

\* The view setView builds for an arrow key, {...prev, ...v}: prev is the
\* store's view, v is computed from `state.view` as the listener holds it,
\* step = state.view.scale * 0.05
arrowView(prev, held, key) ==
  LET step == times(held.scale, 1, 20)
  IN  CASE key = "ArrowLeft"  -> [prev EXCEPT !.cx = minus(held.cx, step)]
        [] key = "ArrowRight" -> [prev EXCEPT !.cx = plus(held.cx, step)]
        [] key = "ArrowUp"    -> [prev EXCEPT !.cy = minus(held.cy, step)]
        [] key = "ArrowDown"  -> [prev EXCEPT !.cy = plus(held.cy, step)]

\* The render after the store changed to st: the key effect, whose
\* dependency is state.view.scale, installs a new listener holding the new
\* view only if the scale changed; key is the key just handled
keyEffect(c, st, key) ==
  [c EXCEPT !.onKey = [ view |-> IF st.view.scale # c.onKey.view.scale
                                 THEN st.view ELSE c.onKey.view,
                        key  |-> key ]]

\* A keydown event is handled while the bound allows; it changes the store
\* and CanvasView only
KeyHandled ==
  /\ events < MaxEvents
  /\ events' = events + 1
  /\ UNCHANGED <<rendererVars, evalVars, paletteTex, ctor, app>>

\* onKey, an arrow key: setView({cx or cy: ...}, true)
ArrowKey ==
  \E key \in Arrows :
    \E s1 \in {setView(store, arrowView(store.view, cv.onKey.view, key), TRUE)} :
      /\ KeyHandled
      /\ store' = s1
      /\ cv' = keyEffect(cv, s1, key)

\* onKey, '+' or '=' and '-' or '_': setView({scale: state.view.scale * 0.9})
\* and / 0.9, of the scale the listener holds
KeyScale ==
  \E key \in {"+", "-"} :
    LET z == IF key = "+" THEN times(cv.onKey.view.scale, 9, 10)
             ELSE times(cv.onKey.view.scale, 10, 9)
    IN  \E s1 \in {setView(store, [store.view EXCEPT !.scale = z], TRUE)} :
          /\ KeyHandled
          /\ store' = s1
          /\ cv' = keyEffect(cv, s1, key)

\* onKey, Ctrl+Z with a history to go back on
KeyUndo ==
  /\ Len(store.history) > 0
  /\ KeyHandled
  /\ store' = undo(store)
  /\ cv' = keyEffect(cv, undo(store), "z")

\* The page opened without parameters, CanvasView mounted
InitKeys ==
  /\ IdleRenderer
  /\ IdleEval
  /\ IdlePalette
  /\ store = [storeCreated([scale |-> Absent, iter |-> Absent]) EXCEPT !.view = defaultView]
  /\ events = 0
  /\ cv = [mounted(<<1, 1>>, "mandelbrot") EXCEPT !.onKey.view = defaultView]
  /\ IdleCtor
  /\ IdleApp

NextKeys == ArrowKey \/ KeyScale \/ KeyUndo

SpecKeys == InitKeys /\ [][NextKeys]_vars

\* ------------------------------------------------------- CanvasView.tsx
MaxInputs == 3     \* input events CanvasView handles

\* Client sizes of the canvas, a collapsed one among them; offsets of the
\* pointer from the rect's left and top (the corner of the rect, which a
\* captured pointer keeps whatever the layout); the states of the store
Rects == ClientSizes \cup {<<1, 0>>}
Positions == {<<0, 0>>}
ViewStates == {"mandelbrot", "julia"}

\* posToComplex(clientX, clientY) for pos = (x, y): aspect = w / max(1, h),
\* height = scale / aspect,
\*   re = (x / w - 0.5) * scale + cx
\*   im = cy - (y / h - 0.5) * scale * max(1, h) / w
\* both as fractions; a zero denominator is a division by zero.
posToComplex(by, pos, rect, view) ==
  LET w == rect[1]
      h == rect[2]
  IN  [ by |-> by,
        re |-> <<(2 * pos[1] - w) * view.scale + view.cx * 2 * w, 2 * w>>,
        im |-> <<view.cy * 2 * h * w - (2 * pos[2] - h) * view.scale * Max(1, h),
                 2 * h * w>> ]

\* A pointer or wheel event can hit the canvas
hit(c) == c.rect[1] > 0 /\ c.rect[2] > 0

\* An input event is handled while the bound allows
input(c) == [c EXCEPT !.handled = @ + 1]

\* What a view action leaves alone besides the GL context
viewOnly == UNCHANGED <<gl, buf, lastDraw, outsideView>>

\* startPreview and endPreview: withPreview on the renderer, if there is one;
\* ps is the renderer's previewScale (1 for 0.5, 2 for 1.0)
startPreview(c, ps) == IF c.renderer THEN 1 ELSE ps
endPreview(c, ps) == IF c.renderer THEN 2 ELSE ps

\* Mutant of draggingEffect: withPreview(true) in both branches
draggingEffectAlwaysPreview(c, dragging, ps) == IF c.renderer THEN 1 ELSE ps

\* The effect on [dragging], run when a render finds dragging changed
draggingEffect(c, dragging, ps) ==
  IF c.renderer THEN (IF dragging THEN 1 ELSE 2) ELSE ps

\* onPointerDown, then the dragging effect of the render it causes
PointerDown ==
  \E shiftKey \in BOOLEAN, pos \in Positions :
    /\ cv.handled < MaxInputs
    /\ hit(cv)
    /\ cv' = [input(cv) EXCEPT
                !.mapped = posToComplex("posToComplex", pos, cv.rect, AppStateOf(cv.state).view),
                !.captured = TRUE,
                !.dragging = TRUE,
                !.box = IF shiftKey THEN TRUE ELSE @]
    /\ previewScale' =
         LET ps == IF shiftKey THEN previewScale ELSE startPreview(cv, previewScale)
         IN  IF ~cv.dragging THEN draggingEffect(cv, TRUE, ps) ELSE ps
    /\ viewOnly

\* onPointerMove.  Panning calls setView and requestRender, and the render
\* effect of the new state requests a frame again; the new view is any of
\* the store's states.
PointerMove ==
  \E pos \in Positions, s2 \in ViewStates :
    LET c1 == [input(cv) EXCEPT
                 !.mapped = posToComplex("posToComplex", pos, cv.rect, AppStateOf(cv.state).view)]
    IN  /\ cv.handled < MaxInputs
        /\ hit(cv) \/ cv.captured
        /\ cv' = IF ~cv.dragging THEN c1
                 ELSE IF cv.box THEN requestRender(c1, cv.state)
                 ELSE requestRender(requestRender([c1 EXCEPT !.state = s2], cv.state), s2)
        /\ (~cv.dragging \/ cv.box) => s2 = cv.state
        /\ UNCHANGED previewScale
        /\ viewOnly

\* onPointerUp, then the effects of the render it causes.  A box zoom maps
\* both corners and may set the view; then boxStart is cleared, dragging is
\* reset, endPreview and requestRender are called.
PointerUp ==
  \E pos \in Positions, s2 \in ViewStates :
    LET c1 == IF cv.box
              THEN [input(cv) EXCEPT
                      !.mapped = posToComplex("posToComplex", pos, cv.rect,
                                              AppStateOf(cv.state).view),
                      !.state = s2]
              ELSE input(cv)
        c2 == requestRender([c1 EXCEPT !.box = FALSE, !.dragging = FALSE,
                                       !.captured = FALSE, !.awaitFull = TRUE], cv.state)
    IN  /\ cv.handled < MaxInputs
        /\ hit(cv) \/ cv.captured
        /\ ~cv.box => s2 = cv.state
        /\ cv' = IF s2 # cv.state THEN requestRender(c2, s2) ELSE c2
        /\ previewScale' =
             LET ps == endPreview(cv, previewScale)
             IN  IF cv.dragging THEN draggingEffect(cv, FALSE, ps) ELSE ps
        /\ viewOnly

\* A wheel event: wheelZoom maps the pointer, sets the view, and the render
\* effect of the new state requests a frame
Wheel ==
  \E pos \in Positions, s2 \in ViewStates :
    /\ cv.handled < MaxInputs
    /\ hit(cv)
    /\ s2 # cv.state
    /\ cv' = requestRender(
               [input(cv) EXCEPT
                  !.mapped = posToComplex("wheelZoom", pos, cv.rect, AppStateOf(cv.state).view),
                  !.state = s2], s2)
    /\ UNCHANGED previewScale
    /\ viewOnly

\* onKey 'h': showUI is toggled, a timer is set to restore the view, and the
\* showUI effect requests its frame
KeyH ==
  /\ cv.handled < MaxInputs
  /\ cv' = showUIEffect([input(cv) EXCEPT !.showUI = ~@, !.timers = @ + 1])
  /\ UNCHANGED previewScale
  /\ viewOnly

\* The timer of onKey 'h': setView gives the store a new view object, and
\* the render effect requests a frame
FireTimer ==
  /\ cv.timers > 0
  /\ cv' = requestRender([cv EXCEPT !.timers = @ - 1], cv.state)
  /\ UNCHANGED previewScale
  /\ viewOnly

\* The canvas is laid out anew: the ResizeObserver calls onResize, whose
\* requestRender is the one of the first render
Layout ==
  \E r \in Rects :
    /\ cv.handled < MaxInputs
    /\ r # cv.rect
    /\ cv' = requestRender([input(cv) EXCEPT !.rect = r], cv.mountState)
    /\ UNCHANGED previewScale
    /\ viewOnly

\* The store changes (a Sidebar control): the render effect requests a frame
StateChange ==
  \E s2 \in ViewStates :
    /\ cv.handled < MaxInputs
    /\ s2 # cv.state
    /\ cv' = requestRender([input(cv) EXCEPT !.state = s2], s2)
    /\ UNCHANGED previewScale
    /\ viewOnly

\* A frame requested by requestRender fires: the renderer renders the state
\* the callback holds
FireFrame ==
  \E f \in cv.frames :
    /\ f.by = "requestRender"
    /\ UNCHANGED <<previewScale, outsideView>>
    /\ IF cv.renderer
       THEN /\ cv' = [cv EXCEPT !.frames = @ \ {f},
                                !.frame = [previewScale |-> previewScale,
                                           awaited |-> cv.awaitFull],
                                !.awaitFull = IF previewScale = 2 THEN FALSE ELSE @]
            /\ renderGL(f.st, cv.rect)
       ELSE /\ cv' = [cv EXCEPT !.frames = @ \ {f}]
            /\ UNCHANGED <<gl, buf, lastDraw>>

\* The frame of the showUI effect fires: setView, requestRender of the
\* render that ran the effect, then the render effect of the new view object
FireShowUIFrame ==
  \E f \in cv.frames :
    /\ f.by = "showUI"
    /\ cv' = requestRender(requestRender([cv EXCEPT !.frames = @ \ {f}], f.st), cv.state)
    /\ UNCHANGED previewScale
    /\ viewOnly

InitView ==
  /\ IdleRenderer
  /\ IdleEval
  /\ IdlePalette
  /\ IdleStore
  /\ \E s \in ViewStates : cv = mounted(<<1, 1>>, s)
  /\ IdleCtor
  /\ IdleApp

NextView ==
  \/ PointerDown
  \/ PointerMove
  \/ PointerUp
  \/ Wheel
  \/ KeyH
  \/ FireTimer
  \/ Layout
  \/ StateChange
  \/ FireFrame
  \/ FireShowUIFrame

SpecView == InitView /\ [][NextView]_vars

\* The browser runs an animation frame callback that stays requested
SpecViewFair == SpecView /\ WF_vars(FireFrame)

\* ------------------------------------------- GLRenderer construction
\* Info logs a driver gives: none, an empty one, one line, two lines
InfoLogs == {NullLog, Log(<<>>), Log(<<"E">>), Log(<<"E", "\n", "W">>)}

Steps == [ok : BOOLEAN, log : InfoLogs]

Drivers == [webgl2 : BOOLEAN, vs : Steps, fs : Steps, link : Steps]

\* throw new Error(message), and a normal return
Throw(message) == [thrown |-> TRUE, message |-> message, instance |-> FALSE]
Return == [thrown |-> FALSE, message |-> <<>>, instance |-> TRUE]

\* createGL: getContext('webgl2') or an error
createGL(d) ==
  IF ~d.webgl2
  THEN Throw(<<"WebGL2 is required for these shaders (#version 300 es).">>)
  ELSE Return

\* Mutant of orUnknown: only the first line of the log is kept
orUnknownFirstLine(log) ==
  IF log.null \/ log.text = <<>> THEN <<"unknown">> ELSE <<Head(log.text)>>

\* log || 'unknown'
orUnknown(log) ==
  IF log.null \/ log.text = <<>> THEN <<"unknown">> ELSE log.text

\* createShader: compile, and on a failed COMPILE_STATUS throw with the log
createShader(step) ==
  IF ~step.ok
  THEN Throw(<<"Shader compile error: ">> \o orUnknown(step.log))
  ELSE Return

\* createProgram: the vertex shader, the fragment shader, then the link,
\* which on a failed LINK_STATUS throws with the log
createProgram(d) ==
  IF createShader(d.vs).thrown THEN createShader(d.vs)
  ELSE IF createShader(d.fs).thrown THEN createShader(d.fs)
  ELSE IF ~d.link.ok
  THEN Throw(<<"Program link error: ">> \o orUnknown(d.link.log))
  ELSE Return

\* The constructor up to this.program: an error of createGL or of
\* createProgram leaves it at once
constructor(d) ==
  IF createGL(d).thrown THEN createGL(d) ELSE createProgram(d)

\* new GLRenderer({ canvas }) on the driver the page runs on
Construct ==
  /\ ctor.pc = "new"
  /\ ctor' = [ctor EXCEPT !.pc = "done", !.result = constructor(ctor.driver)]
  /\ UNCHANGED outsideCtor

InitCtor ==
  /\ IdleRenderer
  /\ IdleEval
  /\ IdlePalette
  /\ IdleStore
  /\ IdleView
  /\ \E d \in Drivers : ctor = [pc |-> "new", driver |-> d, result |-> NoResult]
  /\ IdleApp

NextCtor == Construct

SpecCtor == InitCtor /\ [][NextCtor]_vars

\* ------------------------------------------------- App.tsx, Sidebar.tsx
MaxClicks == 2     \* clicks on Sidebar's export buttons

\* The export buttons: format and scale
Buttons == { [format |-> "png", scale |-> 4], [format |-> "webp", scale |-> 2],
             [format |-> "jpeg", scale |-> 2] }

\* ui.exportProgress after the synchronous part of a call: 0 from
\* exportImage's setUI, then what onProgress was given, if a tile was drawn
progressOf(c) == IF c.done = 0 THEN <<0, 1>> ELSE progressValue(c.done, c.opts)

\* exportImage(format, scale) up to its first await.  Without a renderer in
\* the ref it returns at once; with one it marks the export as running (the
\* Sidebar's state and the store's ui), keeps the AbortController in
\* abortRef and calls exportTiled with the canvas' client size times scale,
\* tile 768.  The buttons are disabled while the Sidebar's `exporting` holds.
ExportImage ==
  \E b \in Buttons :
    /\ app.showUI
    /\ ~app.exporting
    /\ app.invoked < MaxClicks
    /\ IF ~app.renderer
       THEN /\ app' = [app EXCEPT !.invoked = @ + 1, !.click = b]
            /\ UNCHANGED <<gl, buf, lastDraw, exports>>
       ELSE \E j \in Calls :
              /\ exportTiledRun(j, cv.state,
                                [width |-> cv.rect[1] * b.scale,
                                 height |-> cv.rect[2] * b.scale, tile |-> 768])
              /\ app' = [app EXCEPT !.invoked = @ + 1, !.click = b, !.exporting = TRUE,
                                    !.started = @ + 1, !.abortRef = j, !.own = @ \cup {j},
                                    !.ui = [exporting |-> TRUE,
                                            exportProgress |-> progressOf(exports'[j])]]
    /\ UNCHANGED outsideApp

\* showUI is toggled (Sidebar's button, the canvas' restore button, the 'h'
\* key): App mounts Sidebar only while showUI holds, and a Sidebar mounted
\* anew has its own state and refs: not exporting, abortRef null
ToggleUI ==
  /\ app' = [app EXCEPT !.showUI = ~@, !.exporting = FALSE, !.abortRef = 0, !.own = {}]
  /\ UNCHANGED <<gl, buf, lastDraw, exports, outsideApp>>

\* The timer of exportTiled's await fires for a call made by exportImage:
\* the next tile is drawn and onProgress sets ui.exportProgress, or the call
\* returns
ExportProgress ==
  \E j \in Calls :
    /\ resumeRun(j)
    /\ app' = [app EXCEPT !.ui.exportProgress =
                            IF exports'[j].done > exports[j].done
                            THEN progressOf(exports'[j]) ELSE @]
    /\ UNCHANGED outsideApp

\* The Cancel button, rendered while the Sidebar's `exporting` holds:
\* abortRef.current?.abort()
Cancel ==
  /\ app.showUI
  /\ app.exporting
  /\ app.abortRef # 0
  /\ Abort(app.abortRef, {"yield", "resolved", "rejected"})

\* exportImage after its await of exportTiled, for call j that has returned
\* or thrown: the download or the catch, then finally: setExporting(false)
\* and abortRef.current = null on the Sidebar that made the call, which do
\* nothing to a Sidebar mounted later, and setUI on the store
ExportSettled ==
  \E j \in Calls :
    /\ exports[j].pc \in {"resolved", "rejected"}
    /\ j \notin app.settled
    /\ app' = [app EXCEPT !.settled = @ \cup {j},
                          !.exporting = IF j \in app.own THEN FALSE ELSE @,
                          !.abortRef = IF j \in app.own THEN 0 ELSE @,
                          !.ui = [exporting |-> FALSE, exportProgress |-> <<0, 1>>]]
    /\ UNCHANGED <<gl, buf, lastDraw, exports, outsideApp>>

InitApp ==
  /\ InitRenderer
  /\ IdleEval
  /\ IdlePalette
  /\ IdleStore
  /\ IdleView
  /\ IdleCtor
  /\ IdleApp

\* The app with its canvas rendering frames and its Sidebar
NextApp == Render \/ WithPreview \/ ExportImage \/ ToggleUI

SpecApp == InitApp /\ [][NextApp]_vars

\* The Sidebar with a renderer in the ref it is given
InitSidebar ==
  /\ InitRenderer
  /\ IdleEval
  /\ IdlePalette
  /\ IdleStore
  /\ IdleView
  /\ IdleCtor
  /\ app = [appMounted EXCEPT !.renderer = TRUE]

NextSidebar == ExportImage \/ ExportProgress \/ Cancel \/ ExportSettled \/ ToggleUI

SpecSidebar == InitSidebar /\ [][NextSidebar]_vars

\* ================================================================ claims

\* Calls that were made
Made == { j \in Calls : exports[j].pc # "idle" }

\* The least n with n * tile >= len, i.e. ceil(len / tile)
CeilDiv(len, tile) == CHOOSE n \in 0 .. len : n * tile >= len /\ (n = 0 \/ (n - 1) * tile < len)

\* The number of tiles of an export
TotalTiles(opts) == CeilDiv(opts.width, opts.tile) * CeilDiv(opts.height, opts.tile)

\* The raster of an export done with one tile covering the whole canvas:
\* output pixel (X, Y), Y counted from the top, shows the fragment of buffer
\* row H - 1 - Y drawn with u_viewSize = (W, H) and u_tileOffset = (0, 0).
SingleTileRaster(s, opts) ==
  LET one == [opts EXCEPT !.tile = Max(opts.width, opts.height)]
  IN  [p \in Pixels(opts.width, opts.height) |->
         mainSetup(<<2 * p[1] + 1, 2 * (opts.height - 1 - p[2]) + 1>>,
                   ExportUniforms(AppStateOf(s), one, 0, 0))]

\* The raster exportTiled composes on a renderer nothing else has touched:
\* output pixel (X, Y) lies in tile (X div tile, Y div tile) of height h and
\* shows that tile's buffer row h - 1 - (Y mod tile).
TiledRaster(s, opts) ==
  [p \in Pixels(opts.width, opts.height) |->
     LET tx == p[1] \div opts.tile
         ty == p[2] \div opts.tile
         h  == Min(opts.tile, opts.height - ty * opts.tile)
     IN  mainSetup(<<2 * (p[1] % opts.tile) + 1, 2 * (h - 1 - (p[2] % opts.tile)) + 1>>,
                   ExportUniforms(AppStateOf(s), opts, tx, ty))]

\* The drawing buffer of an on-screen frame of the given size
FrameRaster(s, width, height) ==
  [p \in Pixels(width, height) |->
     mainSetup(<<2 * p[1] + 1, 2 * p[2] + 1>>, RenderUniforms(AppStateOf(s), width, height))]

\* C1: for every output size and tile size, the canvas a finished exportTiled
\* call returns shows at every output pixel the same complex point (and the
\* same iteration set-up) as an export of the same state and size done with
\* a single tile covering the whole canvas.
C1_TiledEqualsSingleTile ==
  \A j \in Calls :
    exports[j].pc = "resolved" =>
      exports[j].off = SingleTileRaster(exports[j].st, exports[j].opts)

\* C2: the abort signal is tested before each tile and nowhere else.  A call
\* whose signal is aborted when a tile is about to start (the first one
\* included) is rejected with the error 'aborted': that tile is not drawn,
\* the GL state, the output canvas and the progress log stay as they were.
\* An abort raised after the last tile is not seen: the call resolves with
\* the canvas.  A call that is not aborted goes on to its next tile.  A
\* settled call never changes, 'aborted' is the only rejection and a resolved
\* call carries no error.
C2_AbortTestedBeforeEachTile ==
  [][\A j \in Calls :
       LET c  == exports[j]
           c2 == exports'[j]
       IN  /\ (c.pc = "idle" /\ c2.pc # "idle" /\ aborted[j]) =>
                /\ c2.pc = "rejected" /\ c2.error = "aborted"
                /\ c2.done = 0 /\ c2.log = <<>>
                /\ \A p \in DOMAIN c2.off : c2.off[p] = Transparent
                /\ gl' = gl /\ buf' = buf
           /\ (c.pc = "yield" /\ c2 # c /\ aborted[j] /\ c.done < TotalTiles(c.opts)) =>
                /\ c2.pc = "rejected" /\ c2.error = "aborted"
                /\ c2.done = c.done /\ c2.log = c.log /\ c2.off = c.off
                /\ gl' = gl /\ buf' = buf
           /\ (c.pc = "yield" /\ c2 # c /\ c.done = TotalTiles(c.opts)) =>
                c2.pc = "resolved" /\ c2.off = c.off /\ c2.log = c.log
           /\ (c.pc = "yield" /\ c2 # c /\ ~aborted[j] /\ c.done < TotalTiles(c.opts)) =>
                c2.pc = "yield" /\ c2.done = c.done + 1
           /\ (c.pc \in {"resolved", "rejected"}) => c2 = c
           /\ (c2.pc = "rejected") => c2.error = "aborted"
           /\ (c2.pc = "resolved") => c2.error = ""
    ]_vars

\* C2 witness: a call rejected after some but not all of its tiles
C2_Witness ==
  \E j \in Calls :
    /\ exports[j].pc = "rejected" /\ exports[j].error = "aborted"
    /\ exports[j].done >= 1 /\ exports[j].done < TotalTiles(exports[j].opts)

\* C3: a renderer processes at most one render or export at a time: no
\* render() draws while an exportTiled call is in flight, and no exportTiled
\* call starts or draws a tile while another call is in flight.
C3_OneOperationAtATime ==
  [][ /\ (lastDraw'.by = "render" /\ <<gl, buf, lastDraw>>' # <<gl, buf, lastDraw>>) =>
           InFlight = {}
      /\ \A j \in Calls :
           (exports'[j] # exports[j]) => InFlight \ {j} = {}
    ]_vars

\* C4: after an export was cancelled with tiles left, a later exportTiled
\* call that completes returns exactly the raster it composes on an untouched
\* renderer, and a later render() leaves the canvas and the viewport at the
\* size of its frame and the drawing buffer holding exactly that frame:
\* nothing the cancelled call left behind shows.
C4_NoResidueAfterCancel ==
  /\ \A j \in Calls :
       (exports[j].pc = "resolved" /\ exports[j].after # {}) =>
         /\ exports[j].off = TiledRaster(exports[j].st, exports[j].opts)
         /\ exports[j].error = ""
  /\ (lastDraw.by = "render" /\ lastDraw.after # {}) =>
       \E cs \in ClientSizes :
         LET d      == AppStateOf(lastDraw.st).render.detail
             width  == cs[1] * d
             height == cs[2] * d
         IN  /\ gl.canvas = <<width, height>>
             /\ gl.viewport = <<width, height>>
             /\ buf = FrameRaster(lastDraw.st, width, height)
  /\ \A j \in Rejected : exports[j].error = "aborted"

\* C4 witness: call 1 was cancelled after its first tile with tiles left;
\* after that, call 2 was made and has completed, and a frame was rendered.
C4_Witness ==
  /\ exports[1].pc = "rejected" /\ exports[1].done = 1
  /\ TotalTiles(exports[1].opts) > 1
  /\ exports[2].pc = "resolved" /\ exports[2].after = {1}
  /\ TotalTiles(exports[2].opts) > 1
  /\ lastDraw.by = "render" /\ lastDraw.after = {1}

\* C5: the W x H output is cut into ceil(W/tile) x ceil(H/tile) tiles visited
\* in row-major order; the k-th tile drawn is tile (k-1 mod columns, k-1 div
\* columns), is tile x tile pixels except that the last column and the last
\* row end at the canvas edge; no output pixel is written twice, and when the
\* call completes every output pixel was written exactly once.
C5_TilePartition ==
  \A j \in Made :
    LET c    == exports[j]
        cols == CeilDiv(c.opts.width, c.opts.tile)
        rows == CeilDiv(c.opts.height, c.opts.tile)
    IN  /\ c.done <= cols * rows
        /\ \A k \in 1 .. c.done :
             LET d  == c.log[3 * k - 2]
                 tx == (k - 1) % cols
                 ty == (k - 1) \div cols
             IN  /\ d[1] = "draw" /\ d[2] = tx /\ d[3] = ty
                 /\ d[4] >= 1 /\ d[4] <= c.opts.tile
                 /\ d[5] >= 1 /\ d[5] <= c.opts.tile
                 /\ d[4] = (IF tx < cols - 1 THEN c.opts.tile ELSE c.opts.width - tx * c.opts.tile)
                 /\ d[5] = (IF ty < rows - 1 THEN c.opts.tile ELSE c.opts.height - ty * c.opts.tile)
        /\ \A p \in DOMAIN c.writes : c.writes[p] <= 1
        /\ \A p \in DOMAIN c.writes :
             c.writes[p] = 1 <=>
               (p[2] \div c.opts.tile) * cols + (p[1] \div c.opts.tile) < c.done
        /\ c.pc = "resolved" =>
             /\ c.done = cols * rows
             /\ DOMAIN c.off = Pixels(c.opts.width, c.opts.height)
             /\ \A p \in DOMAIN c.off : c.writes[p] = 1 /\ c.off[p] # Transparent

\* C5 witness: a completed export whose last column and last row are
\* smaller than the tile
C5_Witness ==
  \E j \in Calls :
    /\ exports[j].pc = "resolved"
    /\ exports[j].opts.width % exports[j].opts.tile # 0
    /\ exports[j].opts.height % exports[j].opts.tile # 0
    /\ exports[j].opts.width > exports[j].opts.tile
    /\ exports[j].opts.height > exports[j].opts.tile

\* C6: a call's log is, tile after tile, the draw of the tile, one progress
\* report with the value (tiles done) / (total tiles), then one yield; so the
\* reported values increase strictly, no yield lies between a tile's draw and
\* its report, and the last report of a completed call is total / total = 1.
C6_ProgressThenYield ==
  \A j \in Made :
    LET c == exports[j]
        n == TotalTiles(c.opts)
    IN  /\ Len(c.log) = 3 * c.done
        /\ \A k \in 1 .. c.done :
             /\ c.log[3 * k - 2][1] = "draw"
             /\ c.log[3 * k - 1] = <<"progress", k, n>>
             /\ c.log[3 * k] = <<"yield">>
        /\ c.pc = "yield" => c.done >= 1
        /\ c.pc = "resolved" => c.done = n /\ c.log[3 * n - 1] = <<"progress", n, n>>

\* C6 witness: a completed export of at least three tiles
C6_Witness ==
  \E j \in Calls : exports[j].pc = "resolved" /\ exports[j].done >= 3

\* C9: whoever drew last, render or exportTiled, u_type is 1 for julia, 2 for
\* burning-ship and 0 for mandelbrot of the state it was given, and every
\* fragment drawn iterates with c = the state's Julia constant and z0 = the
\* pixel's point for julia, and with c = the pixel's point and z0 = 0 for
\* the other two kinds.
C9_KindSelectsCAndZ0 ==
  lastDraw.by # "none" =>
    LET st == AppStateOf(lastDraw.st)
        k  == st.render.fractal
    IN  /\ gl.u.u_type = (CASE k = "julia" -> 1 [] k = "burning-ship" -> 2 [] k = "mandelbrot" -> 0)
        /\ \A p \in DOMAIN buf :
             /\ buf[p] # Clear
             /\ buf[p].type = gl.u.u_type
             /\ buf[p].c0 = pixelToComplex(<<2 * p[1] + 1, 2 * p[2] + 1>>, gl.u)
             /\ k = "julia" =>
                  /\ buf[p].c = << <<st.juliaC.x, 1>>, <<st.juliaC.y, 1>> >>
                  /\ buf[p].z = buf[p].c0
             /\ k # "julia" =>
                  /\ buf[p].c = buf[p].c0
                  /\ buf[p].z = << <<0, 1>>, <<0, 1>> >>

\* C9 witness: exportTiled has just drawn a tile of more than one pixel of a
\* Julia set
C9_Witness ==
  /\ lastDraw.by = "exportTiled"
  /\ lastDraw.st = "julia"
  /\ Cardinality(DOMAIN buf) > 1

\* C7: for every iteration budget the state can hold, the evaluation of the
\* origin as a Mandelbrot pixel with power 2 and bailout 4 reports not
\* escaped, and any evaluation whose orbit did not exceed the bailout when
\* the loop was left reports not escaped.
C7_NeverEscapedIsInterior ==
  evalOut.done =>
    /\ ( /\ evalIn.c0 = G(0, 0)
         /\ evalOut.U.u_type = 0
         /\ evalOut.U.u_power = 2
         /\ evalOut.U.u_bailout = 4 ) => ~evalOut.res.escaped
    /\ ~exceeds(evalOut.res.finalZ, flooredBailout(evalOut.U)) => ~evalOut.res.escaped

\* The evaluation of the same pixel with the iteration budget n
AtBudget(n) == evaluate(evalIn.c0, [evalOut.U EXCEPT !.u_maxIter = n], evalIn.atan00)

\* C8: with the point, the kind, the power and the bailout fixed, every
\* larger iteration budget reports the same escaped flag and the same
\* iteration count for a pixel reported escaped, and an iteration count that
\* is not smaller for a pixel reported not escaped.
C8_BudgetMonotone ==
  evalOut.done =>
    \A n \in Budgets :
      n > evalOut.U.u_maxIter =>
        /\ evalOut.res.escaped =>
             /\ AtBudget(n).escaped
             /\ AtBudget(n).iterationCount = evalOut.res.iterationCount
        /\ ~evalOut.res.escaped =>
             AtBudget(n).iterationCount >= evalOut.res.iterationCount

\* C8 witness: a pixel evaluated with a budget that stops the loop before
\* the orbit leaves, which a larger budget reports escaped with a larger
\* count
C8_Witness ==
  /\ evalOut.done
  /\ ~evalOut.res.escaped
  /\ evalOut.res.iterationCount >= 1
  /\ \E n \in Budgets :
       /\ n > evalOut.U.u_maxIter
       /\ AtBudget(n).escaped
       /\ AtBudget(n).iterationCount > evalOut.res.iterationCount

\* C10: an evaluation made with a configured power below 2 gives the result
\* of the evaluation with power 2, and one made with a configured bailout
\* below 2 gives the result of the evaluation with bailout 2: escaped flag,
\* iteration count, final z and the smooth count's terms are all equal.
C10_FlooredParameters ==
  evalOut.done =>
    /\ evalOut.U.u_power < 2 =>
         evalOut.res = evaluate(evalIn.c0, [evalOut.U EXCEPT !.u_power = 2], evalIn.atan00)
    /\ evalOut.U.u_bailout < 2 =>
         evalOut.res = evaluate(evalIn.c0, [evalOut.U EXCEPT !.u_bailout = 2], evalIn.atan00)

\* C10 witness: a pixel evaluated with power 0 and bailout 1 that escaped
\* after at least one full pass, so that the iteration, the escape test and
\* the smooth count have all been used
C10_Witness ==
  /\ evalOut.done
  /\ evalOut.U.u_power = 0
  /\ evalOut.U.u_bailout = 1
  /\ evalOut.res.escaped
  /\ evalOut.res.iterationCount >= 1
  /\ evalOut.res.t.smooth

\* C11: a pixel evaluated with interiorSolid on whose orbit had not exceeded
\* the bailout when the loop was left has the colour (0.02, 0.01, 0.05, 1.0)
\* under every setting of palette, palette length and cycle, scale mode,
\* edge glow, brightness, contrast, gamma, saturation and hue.
C11_SolidInteriorIsFixed ==
  ( /\ evalOut.done
    /\ evalOut.U.u_interiorSolid = 1
    /\ ~exceeds(evalOut.res.finalZ, flooredBailout(evalOut.U)) ) =>
    \A L \in Looks : evalOut.res.color[L] = InteriorColor

\* C12: for every built-in preset, every interpolation mode, both values of
\* reverse and every size >= 2, the first and the last texel of the texture
\* built both have the colour of the preset's first gradient stop.
C12_PaletteEndsAtFirstStop ==
  ( paletteTex.built /\ paletteTex.cfg.preset \in listPalettePresets ) =>
    LET first == presets[paletteTex.cfg.preset][1].rgb
    IN  /\ paletteTex.data[1].rgb = first
        /\ paletteTex.data[paletteTex.size].rgb = first

\* C13: in every state of the store view.scale is > 0 and within
\* [1e-15, 8.0].
C13_ScaleInRange ==
  /\ atLeastMinScale(store.view.scale)
  /\ atMostMaxScale(store.view.scale)

\* C14: in every state of the store render.iterations is an integer >= 1.
C14_IterationsAtLeastOne ==
  /\ store.render.iterations.d = 1
  /\ ~store.render.iterations.tiny
  /\ store.render.iterations.n >= 1

\* C15: mapping a pixel or a pointer position to a complex point never
\* divides by zero: no fragment of the drawing buffer and no result of
\* posToComplex or wheelZoom has a zero denominator, whatever the height of
\* the viewport or of the canvas rect.
C15_NoDivisionByZero ==
  /\ cv.mapped.re[2] # 0
  /\ cv.mapped.im[2] # 0
  /\ \A p \in DOMAIN buf :
       buf[p] # Clear => buf[p].c0[1][2] # 0 /\ buf[p].c0[2][2] # 0

\* C16: after any sequence of requestRender calls at most one frame
\* scheduled by requestRender is pending, and it is the one the most recent
\* call scheduled (the one rafRef names).
C16_OnePendingRequestRenderFrame ==
  LET pending == { f \in cv.frames : f.by = "requestRender" }
  IN  /\ Cardinality(pending) <= 1
      /\ \A f \in pending : f.id = cv.rafRef

\* A requestRender call has cancelled the frame of the call before it, and
\* its own frame is pending
C16_Witness ==
  /\ cv.superseded
  /\ \E f \in cv.frames : f.by = "requestRender" /\ f.id = cv.rafRef

Contains(message, text) ==
  \E i \in 1 .. Len(message) + 1 :
    /\ i + Len(text) - 1 <= Len(message)
    /\ SubSeq(message, i, i + Len(text) - 1) = text

\* C18: constructing a GLRenderer without WebGL2, with a shader that does
\* not compile or with a program that does not link throws, no instance is
\* produced, and the message of a compile or link error contains the info
\* log of the failed step unchanged.
C18_ConstructionFailureThrows ==
  LET d == ctor.driver
      failed == IF ~d.vs.ok THEN d.vs ELSE IF ~d.fs.ok THEN d.fs ELSE d.link
  IN  (ctor.pc = "done" /\ ~(d.webgl2 /\ d.vs.ok /\ d.fs.ok /\ d.link.ok)) =>
        /\ ctor.result.thrown
        /\ ~ctor.result.instance
        /\ d.webgl2 => Contains(ctor.result.message, failed.log.text)

\* The constructor has run on a driver whose fragment shader does not
\* compile and gives a log of two lines
C18_Witness ==
  /\ ctor.pc = "done"
  /\ ctor.driver.webgl2
  /\ ctor.driver.vs.ok
  /\ ~ctor.driver.fs.ok
  /\ Len(ctor.driver.fs.log.text) = 3
  /\ ctor.result.thrown

\* C19: once CanvasView has created its GLRenderer, every invocation of
\* Sidebar's exportImage has started exportTiled on that renderer.
C19_ExportStartsOnRenderer ==
  (cv.renderer /\ app.invoked > 0) =>
    /\ app.started = app.invoked
    /\ exports[1].pc # "idle"

\* C20: at every tile draw of exportTiled the GL state is that of the tile:
\* u_viewSize is the output size, u_tileOffset is (tx * tile, ty * tile), and
\* the canvas and the viewport have the tile's size w x h, also when a
\* render() ran during the yield before the tile.  (tx, ty) is the tile the
\* call has drawn last, which its locals name until it is rejected.
C20_TileStateAtEveryDraw ==
  (lastDraw.by = "exportTiled" /\ exports[lastDraw.call].pc # "rejected") =>
    LET c    == exports[lastDraw.call]
        tile == c.opts.tile
        w    == Min(tile, c.opts.width - c.tx * tile)
        h    == Min(tile, c.opts.height - c.ty * tile)
    IN  /\ gl.u.u_viewSize = <<c.opts.width, c.opts.height>>
        /\ gl.u.u_tileOffset = <<c.tx * tile, c.ty * tile>>
        /\ gl.canvas = <<w, h>>
        /\ gl.viewport = <<w, h>>
        /\ DOMAIN buf = Pixels(w, h)

\* A tile other than the first has been drawn right after a render() that
\* ran during the yield before it
C20_Witness ==
  /\ lastDraw.by = "exportTiled"
  /\ exports[lastDraw.call].pc = "yield"
  /\ lastDraw.sinceRender
  /\ exports[lastDraw.call].ty > 0

\* The setup of the evaluated pixel, and the value of z after k passes of
\* the loop body
EvalSetup == select(evalIn.c0, G(evalOut.U.u_juliaC[1], evalOut.U.u_juliaC[2]), G(0, 0), evalOut.U)

RECURSIVE Orbit(_)
Orbit(k) == IF k = 0 THEN EvalSetup.z ELSE iterate(Orbit(k - 1), EvalSetup, evalIn.atan00)

\* C21: for a pixel reported escaped the reported index i satisfies
\* 0 <= i < iterations, the iterate computed at index i exceeds the bailout
\* and none computed before index i does; for burning-ship every power step
\* starts from the reflected value (|Re z|, |Im z|).
C21_StopsAtFirstEscape ==
  (evalOut.done /\ evalOut.res.escaped) =>
    LET i == evalOut.res.iterationCount
        S == EvalSetup
    IN  /\ 0 <= i
        /\ i < evalOut.U.u_maxIter
        /\ exceeds(evalOut.res.finalZ, S.bailout)
        /\ i <= MaxBudget =>
             /\ evalOut.res.finalZ = Orbit(i + 1)
             /\ \A k \in 1 .. i : ~exceeds(Orbit(k), S.bailout)
             /\ S.type = 2 =>
                  \A k \in 0 .. i :
                    (~Orbit(k).nan /\ Orbit(k) # G(0, 0)) =>
                      Orbit(k + 1) = CAdd(CPow(G(Abs(Orbit(k).re), Abs(Orbit(k).im)), S.power), S.c)

\* The parts of the store the view history consists of
Stack(st) == <<st.view, st.history, st.redo>>

\* C22: the view history is a stack.  A setView that pushes appends the
\* previous view to history and empties redo; undo on a non-empty history
\* makes its top the view, removes it and puts the former view at the front
\* of redo; redoPop does the inverse, so undo then redoPop (and redoPop then
\* undo) restore view, history and redo; undo on an empty history and
\* redoPop on an empty redo change nothing.
C22_HistoryIsStack ==
  LET h == store.history
      r == store.redo
      u == undo(store)
      p == redoPop(store)
  IN  /\ Len(h) = 0 => u = store
      /\ Len(r) = 0 => p = store
      /\ Len(h) > 0 =>
           /\ u.view = h[Len(h)]
           /\ u.history = SubSeq(h, 1, Len(h) - 1)
           /\ u.redo = <<store.view>> \o r
           /\ Stack(redoPop(u)) = Stack(store)
      /\ Len(r) > 0 =>
           /\ p.view = r[1]
           /\ p.redo = Tail(r)
           /\ p.history = Append(h, store.view)
           /\ Stack(undo(p)) = Stack(store)
      /\ \A v \in {[scale |-> Num(1, 1)], store.view} :
           /\ setView(store, v, TRUE).view = v
           /\ setView(store, v, TRUE).history = Append(h, store.view)
           /\ setView(store, v, TRUE).redo = <<>>

\* The view has been changed twice and one change has been undone: history
\* and redo both hold a view
C22_Witness ==
  /\ Len(store.history) > 0
  /\ Len(store.redo) > 0
  /\ store.redo[1] # store.view

\* The bound the history is checked against; MaxEvents is above it
HistoryBound == 2

\* C23: the view history is a bounded stack: neither history nor redo ever
\* holds more than a fixed number of views (here HistoryBound).
C23_HistoryBounded ==
  /\ Len(store.history) <= HistoryBound
  /\ Len(store.redo) <= HistoryBound

\* C24: all tiles of one exportTiled call are drawn with the same palette
\* texture contents, those built from the palette of the snapshot passed to
\* the call, whatever frames run on the renderer between the tiles.
C24_TilesShareSnapshotPalette ==
  \A j \in Calls :
    exports[j].textures \subseteq {paletteTexture[paletteOf(exports[j].st)]}

\* C25: every frame the render loop draws renders the store state that was
\* current when the frame was requested, whoever called requestRender.  (A
\* frame that fires leaves cv.frames and rafRef keeps its value; a frame
\* that is cancelled leaves it with rafRef renamed.)
C25_FrameRendersRequestedState ==
  [][ \A f \in cv.frames :
        ( /\ f.by = "requestRender"
          /\ f \notin cv'.frames
          /\ cv'.rafRef = cv.rafRef
          /\ cv.renderer )
        => f.st = f.cur ]_vars

\* C26: an arrow key moves the centre by 5% of the scale from the centre the
\* store holds when the key is pressed, and pushes one history entry: so n
\* presses move the centre by n steps and push n entries.
C26_ArrowStepsFromCurrentCentre ==
  [][ \A key \in Arrows :
        (cv'.onKey.key = key /\ events' = events + 1)
        => /\ store'.view = arrowView(store.view, store.view, key)
           /\ store'.history = Append(store.history, store.view) ]_vars

\* C27: one wheel event applies the zoom step once (scale times 1.1 or
\* 1 / 1.1, 1.03 with Ctrl, then the clamp) and pushes one history entry.
C27_WheelZoomsOnce ==
  [][ WheelZoom =>
        \E zoomIn \in BOOLEAN, ctrlKey \in BOOLEAN :
          store' = wheelZoom(store, zoomIn, ctrlKey) ]_vars

\* C28: reset() restores the built-in defaults (of the fields modelled:
\* scale 3.0 and 200 iterations) and empties history and redo, whatever
\* parameters the page was opened with: mergeInto(defaults) has left the
\* defaults as they are written in the source.
C28_ResetRestoresBuiltInDefaults ==
  [][ Reset =>
        /\ store.defaults = defaults
        /\ store'.view = defaults.view
        /\ store'.render = defaults.render
        /\ store'.history = <<>>
        /\ store'.redo = <<>> ]_vars

\* C29: after every store operation that changes a field the permalink
\* encodes, the URL query is serializeState of the resulting state.
C29_UrlFollowsState ==
  [][ serializeState(store') # serializeState(store)
      => store'.url = serializeState(store') ]_vars

\* Calls exportImage has made and not run to its end
Unsettled == { j \in Calls : exports[j].pc # "idle" /\ j \notin app.settled }

\* C30: with a renderer in Sidebar's ref, while an export is in flight no
\* second one is started from the UI, and the Sidebar shown offers Cancel
\* with the export's AbortController, also after the Sidebar was unmounted
\* and mounted again; when no export is left, ui.exporting is false and
\* ui.exportProgress is 0.
C30_OneExportCancellable ==
  /\ Cardinality(Unsettled) <= 1
  /\ \A j \in Unsettled :
       (app.showUI /\ exports[j].pc = "yield") => (app.exporting /\ app.abortRef = j)
  /\ (app.invoked > 0 /\ Unsettled = {}) =>
       app.ui = [exporting |-> FALSE, exportProgress |-> <<0, 1>>]

====
